---- MODULE Spec2Model ----
(***************************************************************************)
(* AI_TOOL_EXECUTOR (server/tools/ai-executor.ts): one request of the tool  *)
(* as a state machine.  The handler is an async function with two           *)
(* suspension points (the AI_GENERATE_OBJECT call and the                   *)
(* DECO_TOOL_RUN_TOOL call), so it runs in three atomic segments:           *)
(*   Start            lines 61-128   compose the prompt, issue generation   *)
(*   GenerateReturns  lines 129-164  coerce, validate, issue execution      *)
(*   ToolRunReturns / ToolRunThrows  lines 166-196  build the record        *)
(*                                                                         *)
(* JavaScript values are tagged records [t, v]; v is the text of the value  *)
(* as a sequence of chunks (a string is the concatenation of its chunks, a  *)
(* chunk is never split), so that concatenation is \o and                   *)
(* String.prototype.includes is a contiguous-subsequence search.            *)
(*                                                                         *)
(* Four specifications share the module: Spec (one request, every reply),   *)
(* FairSpec (one request, a sample of the replies, external calls that      *)
(* settle), DetSpec (requests in flight at once against fixed answers) and  *)
(* TodoSpec (TOGGLE_TODO and GENERATE_TODO_WITH_AI of server/tools/todos.ts *)
(* over the todos table).                                                   *)
(***************************************************************************)
EXTENDS Integers, Sequences, FiniteSets, TLC

VARIABLES
    pc,          \* position of the handler: Idle, Generating, Executing, Done, Thrown
    query,       \* context.query of the request in flight
    genCalls,    \* AI_GENERATE_OBJECT calls issued by this request
    aiResponse,  \* what the generation call settled with
    locals,      \* toolName, reasoning, generatedInput kept across the second await
    execCalls,   \* DECO_TOOL_RUN_TOOL calls issued by this request
    execArgs,    \* argument of the DECO_TOOL_RUN_TOOL call
    toolResult,  \* what the execution call settled with
    returned,    \* the record the handler resolved with
    thrown       \* the value the handler rejected with

vars == <<pc, query, genCalls, aiResponse, locals, execCalls, execArgs,
          toolResult, returned, thrown>>

\* several requests of AI_TOOL_EXECUTOR in flight at once, against a generation
\* backend and an execution capability that always answer the same
VARIABLES
    calls,         \* per request: position, query and the locals of execute
    mockGenerate,  \* the reply AI_GENERATE_OBJECT gives to each query
    mockRunTool    \* what DECO_TOOL_RUN_TOOL does on every call

detVars == <<calls, mockGenerate, mockRunTool>>

\* the todo tools (server/tools/todos.ts) over the todos table
VARIABLES
    todosTable,  \* the rows of the table: id, title, completed (0 or 1)
    lastId,      \* the last id the table has given out
    origin,      \* completed of every todo when it came into the table
    toggles,     \* the TOGGLE_TODO requests
    generate     \* the GENERATE_TODO_WITH_AI request

todoVars == <<todosTable, lastId, origin, toggles, generate>>

----------------------------------------------------------------------------
(* JavaScript values *)

Undefined == [t |-> "undefined", v |-> <<>>]
Null == [t |-> "null", v |-> <<>>]
Str(s) == [t |-> "string", v |-> s]
Num(s) == [t |-> "number", v |-> s]
Bool(s) == [t |-> "boolean", v |-> s]
Obj(s) == [t |-> "object", v |-> s]
Err(m) == [t |-> "Error", v |-> m]

EmptyObject == Obj(<<"{}">>)

\* ToBoolean: undefined, null, "", 0 and false are falsy
Truthy(x) ==
    CASE x.t = "undefined" -> FALSE
      [] x.t = "null" -> FALSE
      [] x.t = "string" -> x.v # <<>>
      [] x.t = "number" -> x.v # <<"0">>
      [] x.t = "boolean" -> x.v = <<"true">>
      [] OTHER -> TRUE

\* String(x)
String(x) ==
    CASE x.t = "undefined" -> Str(<<"undefined">>)
      [] x.t = "null" -> Str(<<"null">>)
      [] x.t = "string" -> x
      [] x.t = "object" -> Str(<<"[object Object]">>)
      [] x.t = "Error" -> Str(<<"Error: ">> \o x.v)
      [] OTHER -> Str(x.v)

\* JSON.stringify(x): a string is quoted, undefined has no JSON text
JSONStringify(x) ==
    CASE x.t = "undefined" -> Undefined
      [] x.t = "null" -> Str(<<"null">>)
      [] x.t = "string" -> Str(<<"\"">> \o x.v \o <<"\"">>)
      [] x.t = "Error" -> Str(<<"{}">>)
      [] OTHER -> Str(x.v)

\* x || {}
OrEmptyObject(x) == IF Truthy(x) THEN x ELSE EmptyObject

\* hay.includes(needle) on chunk sequences
Includes(hay, needle) ==
    \E i \in 0..(Len(hay) - Len(needle)) :
        \A j \in 1..Len(needle) : hay[i + j] = needle[j]

----------------------------------------------------------------------------
(* Texts of the program *)

\* the needle of the format check
ExportDefaultAsyncFunction == <<"export", "default", "async", "function">>

\* the entry-point declaration the prompt and the failure message require
RequiredPrefix == ExportDefaultAsyncFunction \o <<"(input,", "ctx)", "{">>

FailedToGenerate == <<"Failed to generate tool code">>

NotCorrectFormat ==
    <<"Generated code is not in the correct ES module format.",
      "Code must start with", "'">> \o RequiredPrefix \o <<"'">>

UnknownError == <<"Unknown error occurred">>

\* reading .error of null or undefined
CannotRead(x) == Err(<<"Cannot read properties of", x.t, "(reading 'error')">>)

\* the template literal of lines 173, 182, 191 without its prefix
ToolUriBare(toolName) == Str(toolName.v)

\* `DYNAMIC::${toolName}`, lines 173, 182 and 191
ToolUri(toolName) == Str(<<"DYNAMIC::">> \o toolName.v)

----------------------------------------------------------------------------
(* What the two external capabilities can answer *)

GoodCode == RequiredPrefix \o <<"return", "{todos:[]}", "}">>
NoExportCode == <<"function", "foo(){}">>
NamedCode == ExportDefaultAsyncFunction \o <<"run", "(input,", "ctx)", "{", "}">>
OtherParamsCode == ExportDefaultAsyncFunction \o <<"(args)", "{", "}">>

Queries == {<<"list todos">>, <<"add a todo">>}

ToolNames == {Undefined, Null, Str(<<>>), Str(<<"LIST">>)}
ExecuteCodes == {Undefined, Null, Str(<<>>), Str(GoodCode), Str(NoExportCode),
                 Str(NamedCode), Str(OtherParamsCode)}
SchemaValues == {Undefined, Null, Obj(<<"{type:object}">>), Str(<<"schema">>),
                 Num(<<"1">>), Bool(<<"true">>)}
InputValues == {Undefined, Null, EmptyObject, Obj(<<"{prompt:milk}">>)}
TextValues == {Undefined, Null, Str(<<"r">>)}

\* aiResponse.object: an object with any of its fields absent or wrongly
\* typed, or no object at all
ReplyObjects ==
    [t : {"object"}, toolName : ToolNames, toolDescription : TextValues,
     inputSchema : SchemaValues, outputSchema : SchemaValues,
     executeCode : ExecuteCodes, input : InputValues, reasoning : TextValues]

NoObject ==
    [t |-> "undefined", toolName |-> Undefined, toolDescription |-> Undefined,
     inputSchema |-> Undefined, outputSchema |-> Undefined,
     executeCode |-> Undefined, input |-> Undefined, reasoning |-> Undefined]

\* values a rejected AI_GENERATE_OBJECT call can carry
GenerationFailures == {Err(<<"gateway timeout">>), Str(<<"fetch failed">>)}

ResultValues == {Undefined, Obj(<<"{todos:[]}">>)}
ErrorValues == {Undefined, Null, Str(<<>>), Num(<<"0">>), Bool(<<"false">>),
                Str(<<"boom">>), Obj(<<"{code:500}">>)}

\* what DECO_TOOL_RUN_TOOL can resolve with: {result?, error?}, null, undefined
Outcomes ==
    [t : {"object"}, result : ResultValues, error : ErrorValues]
    \cup [t : {"null", "undefined"}, result : {Undefined}, error : {Undefined}]

\* what DECO_TOOL_RUN_TOOL can throw (synchronously) or reject with
ThrownValues == {Err(<<"network down">>), Str(<<"network down">>), Undefined}
ThrowModes == {"sync", "async"}

----------------------------------------------------------------------------
(* Segments of execute *)

\* obj?.field
Opt(obj, field) == IF obj.t \in {"undefined", "null"} THEN Undefined ELSE obj[field]

\* lines 131-137
Coerce(obj) ==
    [toolName |-> String(Opt(obj, "toolName")),
     toolDescription |-> String(Opt(obj, "toolDescription")),
     inputSchema |-> OrEmptyObject(Opt(obj, "inputSchema")),
     outputSchema |-> OrEmptyObject(Opt(obj, "outputSchema")),
     executeCode |-> String(Opt(obj, "executeCode")),
     generatedInput |-> OrEmptyObject(Opt(obj, "input")),
     reasoning |-> String(Opt(obj, "reasoning"))]

\* line 141
MissingCode(l) == ~Truthy(l.executeCode) \/ ~Truthy(l.toolName)

\* line 146
HasExportDefault(l) == Includes(l.executeCode.v, ExportDefaultAsyncFunction)

\* lines 155-164 with name and description given in the wrong order
RunToolArgsSwapped(l) ==
    [tool |-> [name |-> l.toolDescription, description |-> l.toolName,
               inputSchema |-> l.inputSchema, outputSchema |-> l.outputSchema,
               execute |-> l.executeCode],
     input |-> l.generatedInput]

\* lines 155-164
RunToolArgs(l) ==
    [tool |-> [name |-> l.toolName, description |-> l.toolDescription,
               inputSchema |-> l.inputSchema, outputSchema |-> l.outputSchema,
               execute |-> l.executeCode],
     input |-> l.generatedInput]

\* lines 171-177 with the outcome's result copied into the record as well
ErrorRecordKeepsResult(l, out) ==
    [reasoning |-> l.reasoning, toolUri |-> ToolUri(l.toolName),
     generatedInput |-> l.generatedInput, result |-> out.result,
     error |-> JSONStringify(out.error)]

\* lines 171-177
ErrorRecord(l, out) ==
    [reasoning |-> l.reasoning, toolUri |-> ToolUri(l.toolName),
     generatedInput |-> l.generatedInput, result |-> Undefined,
     error |-> JSONStringify(out.error)]

\* lines 180-186
SuccessRecord(l, out) ==
    [reasoning |-> l.reasoning, toolUri |-> ToolUri(l.toolName),
     generatedInput |-> l.generatedInput, result |-> out.result,
     error |-> Undefined]

\* line 194
ErrorMessage(error) == IF error.t = "Error" THEN Str(error.v) ELSE Str(UnknownError)

\* lines 189-195
CatchRecord(l, error) ==
    [reasoning |-> l.reasoning, toolUri |-> ToolUri(l.toolName),
     generatedInput |-> l.generatedInput, result |-> Undefined,
     error |-> ErrorMessage(error)]

NoLocals ==
    [toolName |-> Undefined, toolDescription |-> Undefined,
     inputSchema |-> Undefined, outputSchema |-> Undefined,
     executeCode |-> Undefined, generatedInput |-> Undefined,
     reasoning |-> Undefined]

NoArgs ==
    [tool |-> [name |-> Undefined, description |-> Undefined,
               inputSchema |-> Undefined, outputSchema |-> Undefined,
               execute |-> Undefined],
     input |-> Undefined]

NoRecord ==
    [reasoning |-> Undefined, toolUri |-> Undefined, generatedInput |-> Undefined,
     result |-> Undefined, error |-> Undefined]

NoOutcome == [t |-> "pending", result |-> Undefined, error |-> Undefined]

Pending == [kind |-> "pending", object |-> NoObject, reason |-> Undefined]

NotRun == [kind |-> "pending", mode |-> "", value |-> NoOutcome, error |-> Undefined]

Init ==
    /\ pc = "Idle"
    /\ query = <<>>
    /\ genCalls = 0
    /\ aiResponse = Pending
    /\ locals = NoLocals
    /\ execCalls = 0
    /\ execArgs = NoArgs
    /\ toolResult = NotRun
    /\ returned = NoRecord
    /\ thrown = Undefined

\* a request arrives (the previous one, if any, has settled): lines 61-128
Start(q) ==
    /\ pc \in {"Idle", "Done", "Thrown"}
    /\ pc' = "Generating"
    /\ query' = q
    /\ genCalls' = 1
    /\ aiResponse' = Pending
    /\ locals' = NoLocals
    /\ execCalls' = 0
    /\ execArgs' = NoArgs
    /\ toolResult' = NotRun
    /\ returned' = NoRecord
    /\ thrown' = Undefined
    /\ UNCHANGED <<detVars, todoVars>>

\* a failed generation call issued again instead of being propagated
GenerateFailsRetried(e) ==
    /\ pc = "Generating"
    /\ genCalls < 3
    /\ genCalls' = genCalls + 1
    /\ UNCHANGED <<pc, query, aiResponse, locals, execCalls, execArgs, toolResult,
                   returned, thrown>>
    /\ UNCHANGED <<detVars, todoVars>>

\* the generation call moved inside the try: its failure becomes a record
GenerateFailsCaught(e) ==
    /\ pc = "Generating"
    /\ aiResponse' = [kind |-> "rejected", object |-> NoObject, reason |-> e]
    /\ pc' = "Done"
    /\ returned' =
          [reasoning |-> Str(<<>>), toolUri |-> Str(<<"DYNAMIC::">>),
           generatedInput |-> EmptyObject, result |-> Undefined,
           error |-> IF e.t = "Error" THEN Str(e.v) ELSE Str(UnknownError)]
    /\ UNCHANGED <<query, genCalls, locals, execCalls, execArgs, toolResult, thrown>>
    /\ UNCHANGED <<detVars, todoVars>>

\* AI_GENERATE_OBJECT rejects: the await at line 114 is outside any try
GenerateFails(e) ==
    /\ pc = "Generating"
    /\ aiResponse' = [kind |-> "rejected", object |-> NoObject, reason |-> e]
    /\ pc' = "Thrown"
    /\ thrown' = e
    /\ UNCHANGED <<query, genCalls, locals, execCalls, execArgs, toolResult, returned>>
    /\ UNCHANGED <<detVars, todoVars>>

\* AI_GENERATE_OBJECT resolves: lines 129-164
GenerateReturns(obj) ==
    /\ pc = "Generating"
    /\ aiResponse' = [kind |-> "resolved", object |-> obj, reason |-> Undefined]
    /\ locals' = Coerce(obj)
    /\ IF MissingCode(locals')
         THEN /\ pc' = "Thrown"
              /\ thrown' = Err(FailedToGenerate)
              /\ UNCHANGED <<execCalls, execArgs>>
         ELSE IF ~HasExportDefault(locals')
           THEN /\ pc' = "Thrown"
                /\ thrown' = Err(NotCorrectFormat)
                /\ UNCHANGED <<execCalls, execArgs>>
           ELSE /\ pc' = "Executing"
                /\ execCalls' = execCalls + 1
                /\ execArgs' = RunToolArgs(locals')
                /\ UNCHANGED thrown
    /\ UNCHANGED <<query, genCalls, toolResult, returned>>
    /\ UNCHANGED <<detVars, todoVars>>

\* DECO_TOOL_RUN_TOOL resolves: lines 166-186, and 187-196 when reading
\* toolResult.error throws
ToolRunReturns(out) ==
    /\ pc = "Executing"
    /\ toolResult' = [kind |-> "returned", mode |-> "", value |-> out, error |-> Undefined]
    /\ returned' = IF out.t \in {"null", "undefined"}
                     THEN CatchRecord(locals, CannotRead(out))
                     ELSE IF Truthy(out.error)
                            THEN ErrorRecord(locals, out)
                            ELSE SuccessRecord(locals, out)
    /\ pc' = "Done"
    /\ UNCHANGED <<query, genCalls, aiResponse, locals, execCalls, execArgs, thrown>>
    /\ UNCHANGED <<detVars, todoVars>>

\* lines 187-196 without the catch: the thrown value leaves execute
ToolRunThrowsUncaught(error, mode) ==
    /\ pc = "Executing"
    /\ toolResult' = [kind |-> "threw", mode |-> mode, value |-> NoOutcome, error |-> error]
    /\ thrown' = error
    /\ pc' = "Thrown"
    /\ UNCHANGED <<query, genCalls, aiResponse, locals, execCalls, execArgs, returned>>
    /\ UNCHANGED <<detVars, todoVars>>

\* DECO_TOOL_RUN_TOOL throws before returning a promise, or its promise
\* rejects: both land in the catch of lines 187-196
ToolRunThrows(error, mode) ==
    /\ pc = "Executing"
    /\ toolResult' = [kind |-> "threw", mode |-> mode, value |-> NoOutcome, error |-> error]
    /\ returned' = CatchRecord(locals, error)
    /\ pc' = "Done"
    /\ UNCHANGED <<query, genCalls, aiResponse, locals, execCalls, execArgs, thrown>>
    /\ UNCHANGED <<detVars, todoVars>>

\* the generation call settles with some reply object; the guard stands ahead
\* of the quantifier so that the replies are enumerated only while the call
\* is in flight
GenerationResolves ==
    /\ pc = "Generating"
    /\ \E obj \in ReplyObjects \cup {NoObject} : GenerateReturns(obj)

\* the execution call settles with some outcome
ToolRunResolves ==
    /\ pc = "Executing"
    /\ \E out \in Outcomes : ToolRunReturns(out)

Next ==
    \/ \E q \in Queries : Start(q)
    \/ \E e \in GenerationFailures : GenerateFails(e)
    \/ GenerationResolves
    \/ ToolRunResolves
    \/ \E error \in ThrownValues, mode \in ThrowModes : ToolRunThrows(error, mode)

TypeOK ==
    /\ pc \in {"Idle", "Generating", "Executing", "Done", "Thrown"}
    /\ genCalls \in 0..1
    /\ execCalls \in 0..1

----------------------------------------------------------------------------
(* One request against a sample of the replies, with external calls that *)
(* eventually settle *)

\* every combination of toolName and executeCode, with and without an input
SampleReplies ==
    [t : {"object"}, toolName : ToolNames, toolDescription : {Str(<<"r">>)},
     inputSchema : {Obj(<<"{type:object}">>)},
     outputSchema : {Obj(<<"{type:object}">>)},
     executeCode : ExecuteCodes, input : {Undefined, Obj(<<"{prompt:milk}">>)},
     reasoning : {Str(<<"r">>)}]

GenerationResolvesSample ==
    /\ pc = "Generating"
    /\ \E obj \in SampleReplies \cup {NoObject} : GenerateReturns(obj)

\* the external call of a request in flight settles
Settles ==
    \/ \E e \in GenerationFailures : GenerateFails(e)
    \/ GenerationResolvesSample
    \/ ToolRunResolves
    \/ \E error \in ThrownValues, mode \in ThrowModes : ToolRunThrows(error, mode)

SampleNext ==
    \/ \E q \in Queries : Start(q)
    \/ Settles

----------------------------------------------------------------------------
(* Requests in flight at once: each invocation of execute has its own *)
(* locals (the const declarations of lines 131-137) *)

NumCalls == 3
Callers == 1..NumCalls

IdleCall ==
    [pc |-> "Idle", query |-> <<>>, locals |-> NoLocals, execArgs |-> NoArgs,
     returned |-> NoRecord, thrown |-> Undefined]

ListReply ==
    [t |-> "object", toolName |-> Str(<<"LIST">>), toolDescription |-> Str(<<"r">>),
     inputSchema |-> Obj(<<"{type:object}">>), outputSchema |-> Obj(<<"{type:object}">>),
     executeCode |-> Str(GoodCode), input |-> Obj(<<"{prompt:milk}">>),
     reasoning |-> Str(<<"r">>)]

BareReply ==
    [t |-> "object", toolName |-> Null, toolDescription |-> Undefined,
     inputSchema |-> Undefined, outputSchema |-> Undefined,
     executeCode |-> Str(NamedCode), input |-> Undefined, reasoning |-> Undefined]

BadReply == [ListReply EXCEPT !.executeCode = Str(NoExportCode)]

MockReplies == {ListReply, BareReply, BadReply}

MockSettles ==
    {[kind |-> "returned", mode |-> "", error |-> Undefined,
      value |-> [t |-> "object", result |-> Obj(<<"{todos:[]}">>), error |-> Undefined]],
     [kind |-> "returned", mode |-> "", error |-> Undefined,
      value |-> [t |-> "object", result |-> Undefined, error |-> Str(<<"boom">>)]],
     [kind |-> "threw", mode |-> "async", error |-> Err(<<"network down">>),
      value |-> NoOutcome]}

\* no request of this kind is made
DetIdle ==
    /\ calls = [i \in Callers |-> IdleCall]
    /\ mockGenerate = [q \in Queries |-> NoObject]
    /\ mockRunTool = NotRun

DetInit ==
    /\ calls = [i \in Callers |-> IdleCall]
    /\ mockGenerate \in [Queries -> MockReplies]
    /\ mockRunTool \in MockSettles

\* lines 61-128
CallStart(i, q) ==
    /\ calls[i].pc = "Idle"
    /\ calls' = [calls EXCEPT ![i].pc = "Generating", ![i].query = q]
    /\ UNCHANGED <<mockGenerate, mockRunTool, vars, todoVars>>

\* the request after validation: lines 151-164
Validated(call, l) ==
    IF MissingCode(l)
      THEN [call EXCEPT !.pc = "Thrown", !.locals = l, !.thrown = Err(FailedToGenerate)]
      ELSE IF ~HasExportDefault(l)
        THEN [call EXCEPT !.pc = "Thrown", !.locals = l, !.thrown = Err(NotCorrectFormat)]
        ELSE [call EXCEPT !.pc = "Executing", !.locals = l, !.execArgs = RunToolArgs(l)]

\* lines 129-164 with the locals declared outside execute: the request that
\* validates last overwrites them for the requests waiting at line 155
CallGenerateReturnsShared(i) ==
    /\ calls[i].pc = "Generating"
    /\ LET l == Coerce(mockGenerate[calls[i].query])
       IN calls' = [j \in Callers |->
                      IF j = i THEN Validated(calls[i], l)
                      ELSE IF calls[j].pc = "Executing"
                             THEN [calls[j] EXCEPT !.locals = l]
                             ELSE calls[j]]
    /\ UNCHANGED <<mockGenerate, mockRunTool, vars, todoVars>>

\* lines 129-164
CallGenerateReturns(i) ==
    /\ calls[i].pc = "Generating"
    /\ calls' = [calls EXCEPT
                   ![i] = Validated(calls[i], Coerce(mockGenerate[calls[i].query]))]
    /\ UNCHANGED <<mockGenerate, mockRunTool, vars, todoVars>>

\* lines 166-196
SettledRecord(l, settle) ==
    IF settle.kind = "threw"
      THEN CatchRecord(l, settle.error)
      ELSE IF settle.value.t \in {"null", "undefined"}
        THEN CatchRecord(l, CannotRead(settle.value))
        ELSE IF Truthy(settle.value.error)
          THEN ErrorRecord(l, settle.value)
          ELSE SuccessRecord(l, settle.value)

\* lines 166-196
CallToolRunSettles(i) ==
    /\ calls[i].pc = "Executing"
    /\ calls' = [calls EXCEPT ![i].pc = "Done",
                              ![i].returned = SettledRecord(calls[i].locals, mockRunTool)]
    /\ UNCHANGED <<mockGenerate, mockRunTool, vars, todoVars>>

DetNext ==
    \/ \E i \in Callers, q \in Queries : CallStart(i, q)
    \/ \E i \in Callers : CallGenerateReturns(i)
    \/ \E i \in Callers : CallToolRunSettles(i)

----------------------------------------------------------------------------
(* TOGGLE_TODO and GENERATE_TODO_WITH_AI.  Every statement sent through   *)
(* getDb is one call of DATABASES_RUN_SQL and takes effect at once; the    *)
(* tools open no transaction (db.ts runs its migrations, which leave an    *)
(* existing table alone, with migrateWithoutTransaction).                  *)

MaxTodos == 2
NumToggles == 2

TodoIds == 1..MaxTodos
Togglers == 1..NumToggles

TodoNotFound == <<"Todo not found">>
FailedToGenerateTodo == <<"Failed to generate todo">>

\* reading .id of updatedTodo[0] when the update returned no row
CannotReadId == Err(<<"Cannot read properties of undefined (reading 'id')">>)

NoTodo == [id |-> 0, title |-> Undefined, completed |-> FALSE]

IdleToggle ==
    [pc |-> "Idle", id |-> 0, newCompletedStatus |-> 0, returned |-> NoTodo,
     thrown |-> Undefined]

NoTodoReply == [t |-> "pending", title |-> Undefined]

IdleGenerate ==
    [pc |-> "Idle", userPrompt |-> Undefined, generatedTodo |-> NoTodoReply,
     generatedTodoTitle |-> Undefined, idsBefore |-> 0, returned |-> NoTodo,
     thrown |-> Undefined]

\* context.prompt
Prompts == {Undefined, Str(<<"groceries">>)}

\* line 73
DefaultPrompt == Str(<<"Generate a funny TODO title">>)

\* generatedTodo.object: with a title, with none, or no object at all
TodoReplies ==
    [t : {"object"}, title : {Undefined, Null, Str(<<>>), Str(<<"Buy milk">>)}]
    \cup {[t |-> "undefined", title |-> Undefined]}

\* no todo request is made
TodoIdle ==
    /\ todosTable = {}
    /\ lastId = 0
    /\ origin = [i \in TodoIds |-> 0]
    /\ toggles = [c \in Togglers |-> IdleToggle]
    /\ generate = IdleGenerate

\* the table holds one todo, open or completed
TodoInit ==
    /\ \E c \in {0, 1} :
         /\ todosTable = {[id |-> 1, title |-> Str(<<"Walk the dog">>), completed |-> c]}
         /\ origin = [i \in TodoIds |-> IF i = 1 THEN c ELSE 0]
    /\ lastId = 1
    /\ toggles = [c \in Togglers |-> IdleToggle]
    /\ generate = IdleGenerate

\* select ... where id = ?
RowsWithId(id) == {r \in todosTable : r.id = id}

\* todos.ts line 136: currentTodo[0].completed === 1 ? 0 : 1
Toggled(completed) == IF completed = 1 THEN 0 ELSE 1

\* todos.ts lines 123-124: the request arrives
ToggleStart(c, id) ==
    /\ toggles[c].pc = "Idle"
    /\ toggles' = [toggles EXCEPT ![c].pc = "Selecting", ![c].id = id]
    /\ UNCHANGED <<todosTable, lastId, origin, generate, vars, detVars>>

\* todos.ts lines 127-136: the select is answered
ToggleSelect(c) ==
    /\ toggles[c].pc = "Selecting"
    /\ LET currentTodo == RowsWithId(toggles[c].id)
       IN IF currentTodo = {}
            THEN toggles' = [toggles EXCEPT ![c].pc = "Thrown",
                                            ![c].thrown = Err(TodoNotFound)]
            ELSE \E row \in currentTodo :
                   toggles' = [toggles EXCEPT
                                 ![c].pc = "Updating",
                                 ![c].newCompletedStatus = Toggled(row.completed)]
    /\ UNCHANGED <<todosTable, lastId, origin, generate, vars, detVars>>

\* todos.ts lines 138-149: the update is carried out and its rows returned
ToggleUpdate(c) ==
    /\ toggles[c].pc = "Updating"
    /\ LET id == toggles[c].id
           status == toggles[c].newCompletedStatus
           updatedTodo == {[r EXCEPT !.completed = status] : r \in RowsWithId(id)}
       IN /\ todosTable' = (todosTable \ RowsWithId(id)) \cup updatedTodo
          /\ IF updatedTodo = {}
               THEN toggles' = [toggles EXCEPT ![c].pc = "Thrown",
                                               ![c].thrown = CannotReadId]
               ELSE \E row \in updatedTodo :
                      toggles' = [toggles EXCEPT
                                    ![c].pc = "Done",
                                    ![c].returned =
                                       [id |-> row.id, title |-> row.title,
                                        completed |-> (row.completed = 1)]]
    /\ UNCHANGED <<lastId, origin, generate, vars, detVars>>

\* todos.ts lines 68-86: the request arrives and the generation call is made
GenerateTodoStart(prompt) ==
    /\ generate.pc \in {"Idle", "Done", "Thrown"}
    /\ lastId < MaxTodos
    /\ generate' = [IdleGenerate EXCEPT
                      !.pc = "Generating",
                      !.userPrompt = IF Truthy(prompt) THEN prompt ELSE DefaultPrompt,
                      !.idsBefore = lastId]
    /\ UNCHANGED <<todosTable, lastId, origin, toggles, vars, detVars>>

\* todos.ts lines 75-86: AI_GENERATE_OBJECT rejects
GenerateTodoFails(e) ==
    /\ generate.pc = "Generating"
    /\ generate' = [generate EXCEPT !.pc = "Thrown", !.thrown = e]
    /\ UNCHANGED <<todosTable, lastId, origin, toggles, vars, detVars>>

\* todos.ts lines 88-97: AI_GENERATE_OBJECT resolves, the insert is sent
GenerateTodoReturns(obj) ==
    /\ generate.pc = "Generating"
    /\ LET generatedTodoTitle == String(Opt(obj, "title"))
       IN generate' =
            IF ~Truthy(generatedTodoTitle)
              THEN [generate EXCEPT !.pc = "Thrown", !.generatedTodo = obj,
                                    !.generatedTodoTitle = generatedTodoTitle,
                                    !.thrown = Err(FailedToGenerateTodo)]
              ELSE [generate EXCEPT !.pc = "Inserting", !.generatedTodo = obj,
                                    !.generatedTodoTitle = generatedTodoTitle]
    /\ UNCHANGED <<todosTable, lastId, origin, toggles, vars, detVars>>

\* todos.ts lines 94-105: the insert is carried out and the todo returned
GenerateTodoInsert ==
    /\ generate.pc = "Inserting"
    /\ lastId' = lastId + 1
    /\ todosTable' = todosTable \cup
          {[id |-> lastId', title |-> generate.generatedTodoTitle, completed |-> 0]}
    /\ generate' = [generate EXCEPT
                      !.pc = "Done",
                      !.returned = [id |-> lastId', title |-> generate.generatedTodoTitle,
                                    completed |-> FALSE]]
    /\ UNCHANGED <<origin, toggles, vars, detVars>>

TodoNext ==
    \/ \E c \in Togglers, id \in TodoIds : ToggleStart(c, id)
    \/ \E c \in Togglers : ToggleSelect(c)
    \/ \E c \in Togglers : ToggleUpdate(c)
    \/ \E prompt \in Prompts : GenerateTodoStart(prompt)
    \/ \E e \in GenerationFailures : GenerateTodoFails(e)
    \/ \E obj \in TodoReplies : GenerateTodoReturns(obj)
    \/ GenerateTodoInsert

----------------------------------------------------------------------------
(* Specifications *)

allVars == <<vars, detVars, todoVars>>

\* one request of AI_TOOL_EXECUTOR at a time, nothing else going on
OneInit == Init /\ DetIdle /\ TodoIdle

Spec == OneInit /\ [][Next]_allVars

FairSpec == OneInit /\ [][SampleNext]_allVars /\ WF_allVars(Settles)

\* requests of AI_TOOL_EXECUTOR in flight at once
ManyInit == Init /\ DetInit /\ TodoIdle

DetSpec == ManyInit /\ [][DetNext]_allVars

\* requests of the todo tools
StoreInit == Init /\ DetIdle /\ TodoInit

TodoSpec == StoreInit /\ [][TodoNext]_allVars

----------------------------------------------------------------------------
(* Properties *)

Replied == aiResponse.kind = "resolved"
Reply == aiResponse.object

\* a field of the reply that is undefined, null or the empty string
Absent(x) == x.t \in {"undefined", "null"} \/ x = Str(<<>>)

\* a field of the reply that carries a non-empty string
NonEmptyString(x) == x.t = "string" /\ x.v # <<>>

\* the execute code of the reply carries the required entry-point declaration
WellFormedCode(x) == x.t = "string" /\ Includes(x.v, RequiredPrefix)

\* C1: a reply in which toolName or executeCode is absent (undefined, null)
\* or empty makes the request fail hard, and DECO_TOOL_RUN_TOOL is not called
\* during that request, also when only toolName is missing and executeCode is
\* well formed.
C1_MissingFieldNeverExecutes ==
    (Replied /\ (Absent(Reply.toolName) \/ Absent(Reply.executeCode)))
        => (pc = "Thrown" /\ thrown.t = "Error" /\ execCalls = 0)

\* C2: a reply (with a tool name) whose executeCode is a text that does not
\* contain "export default async function (input, ctx) {" makes the request
\* throw, the message of the failure contains that prefix, and
\* DECO_TOOL_RUN_TOOL is not called.
C2_BadShapeAborts ==
    (Replied /\ NonEmptyString(Reply.toolName) /\ NonEmptyString(Reply.executeCode)
             /\ ~Includes(Reply.executeCode.v, RequiredPrefix))
        => (pc = "Thrown" /\ thrown.t = "Error"
            /\ Includes(thrown.v, RequiredPrefix) /\ execCalls = 0)

\* C3: a reply with a non-empty toolName and an executeCode containing the
\* required declaration passes validation, and DECO_TOOL_RUN_TOOL is called
\* exactly once with tool.execute identical to the reply's executeCode,
\* tool.name equal to the reply's toolName, and the reply's input (when the
\* reply carries one) unchanged.
C3_WellFormedReplyIsExecutedVerbatim ==
    (Replied /\ NonEmptyString(Reply.toolName) /\ WellFormedCode(Reply.executeCode))
        => /\ pc \in {"Executing", "Done"}
           /\ thrown = Undefined
           /\ execCalls = 1
           /\ execArgs.tool.execute = Reply.executeCode
           /\ execArgs.tool.name = Reply.toolName
           /\ (Reply.input.t = "object" => execArgs.input = Reply.input)

C3_Witness ==
    /\ pc = "Executing"
    /\ Reply.toolName = Str(<<"LIST">>)
    /\ Reply.executeCode = Str(GoodCode)
    /\ Reply.input = Obj(<<"{prompt:milk}">>)
    /\ Reply.toolDescription = Str(<<"r">>)
    /\ execCalls = 1

\* C4: once validation has passed the request never throws, whatever
\* DECO_TOOL_RUN_TOOL does (result, reported error, null or undefined outcome,
\* synchronous throw, rejection), and it resolves with a record; and every
\* reply whose code does not have the required shape makes the request throw
\* without a record.
C4_ExecutionNeverThrowsShapeAlwaysDoes ==
    /\ execCalls = 1 => /\ pc \in {"Executing", "Done"}
                        /\ thrown = Undefined
                        /\ (toolResult.kind # "pending"
                              => pc = "Done" /\ returned # NoRecord)
    /\ (Replied /\ ~WellFormedCode(Reply.executeCode))
          => (pc = "Thrown" /\ returned = NoRecord)

\* C5: in every returned record result and error are never both set, whatever
\* DECO_TOOL_RUN_TOOL answered; and when the outcome has only result
\* populated, the record has no error and carries that result.
C5_ResultAndErrorExclusive ==
    pc = "Done"
        => /\ ~(returned.result # Undefined /\ returned.error # Undefined)
           /\ (toolResult.kind = "returned" /\ toolResult.value.t = "object"
               /\ toolResult.value.result # Undefined
               /\ toolResult.value.error = Undefined)
                 => (returned.error = Undefined
                     /\ returned.result = toolResult.value.result)

C5_Witness ==
    /\ pc = "Done"
    /\ toolResult.kind = "returned"
    /\ toolResult.value.result = Obj(<<"{todos:[]}">>)
    /\ toolResult.value.error = Str(<<"boom">>)
    /\ returned.error = Str(<<"\"", "boom", "\"">>)

\* C6: when the outcome of DECO_TOOL_RUN_TOOL has only error populated (any
\* value, also "", 0, false or an object), the record has no result and its
\* error is a non-empty string.
C6_ReportedErrorIsNonEmptyString ==
    (pc = "Done" /\ toolResult.kind = "returned" /\ toolResult.value.t = "object"
     /\ toolResult.value.result = Undefined
     /\ toolResult.value.error.t \notin {"undefined", "null"})
        => (returned.result = Undefined /\ NonEmptyString(returned.error))

\* the message that can be extracted from a thrown value
ExtractableMessage(e) ==
    CASE e.t = "Error" -> Str(e.v)
      [] e.t = "string" -> e
      [] OTHER -> Str(UnknownError)

\* C7: when DECO_TOOL_RUN_TOOL throws, the record has no result and its error
\* is the message of the thrown value (the string itself for a thrown
\* string), and "Unknown error occurred" only when there is no message.
C7_ThrownMessageIsReported ==
    (pc = "Done" /\ toolResult.kind = "threw")
        => (returned.result = Undefined
            /\ returned.error = ExtractableMessage(toolResult.error))

\* what the specified coercion of a schema gives
ObjectOrEmpty(x) == IF x.t = "object" THEN x ELSE EmptyObject

\* C8: for an otherwise well-formed reply, the inputSchema and outputSchema
\* given to DECO_TOOL_RUN_TOOL are the reply's when they are objects and {}
\* when they are missing or not objects; the request does not abort.
C8_SchemasDefaultToEmptyObject ==
    (Replied /\ NonEmptyString(Reply.toolName) /\ WellFormedCode(Reply.executeCode))
        => /\ pc \in {"Executing", "Done"}
           /\ execCalls = 1
           /\ execArgs.tool.inputSchema = ObjectOrEmpty(Reply.inputSchema)
           /\ execArgs.tool.outputSchema = ObjectOrEmpty(Reply.outputSchema)

\* C9: every returned record (outcome with result, reported error, thrown
\* exception) has a reasoning string, toolUri = "DYNAMIC::" followed by the
\* validated tool name, and generatedInput equal to the input passed to
\* DECO_TOOL_RUN_TOOL; a request that throws returns no record.
C9_RecordIdentifiesTool ==
    /\ pc = "Done"
         => /\ returned.reasoning.t = "string"
            /\ (Reply.reasoning.t = "string" => returned.reasoning = Reply.reasoning)
            /\ returned.toolUri = Str(<<"DYNAMIC::">> \o execArgs.tool.name.v)
            /\ (NonEmptyString(Reply.toolName)
                  => returned.toolUri = Str(<<"DYNAMIC::">> \o Reply.toolName.v))
            /\ returned.generatedInput = execArgs.input
    /\ pc = "Thrown" => returned = NoRecord

C9_Witness ==
    /\ pc = "Done"
    /\ toolResult.kind = "threw"
    /\ returned.toolUri = Str(<<"DYNAMIC::", "LIST">>)
    /\ returned.generatedInput = Obj(<<"{prompt:milk}">>)
    /\ returned.reasoning = Str(<<"r">>)

\* C10: when AI_GENERATE_OBJECT fails, the request fails with that same
\* value, exactly one generation call was made, DECO_TOOL_RUN_TOOL was not
\* called and no record is returned.
C10_GenerationFailurePropagates ==
    aiResponse.kind = "rejected"
        => /\ pc = "Thrown"
           /\ thrown = aiResponse.reason
           /\ genCalls = 1
           /\ execCalls = 0
           /\ returned = NoRecord

C10_Witness ==
    /\ aiResponse.kind = "rejected"
    /\ aiResponse.reason = Str(<<"fetch failed">>)
    /\ pc = "Thrown"

\* C12 as stated: the request throws only out of validation, on a missing
\* field or a bad code shape, and every other failure (generation failure,
\* thrown or rejected execution, null outcome, reported error) ends in Done
\* with a record that carries an error.
C12_AbortOnlyFromValidating ==
    /\ pc = "Thrown"
         => (Replied /\ thrown \in {Err(FailedToGenerate), Err(NotCorrectFormat)})
    /\ (aiResponse.kind = "rejected" \/ toolResult.kind = "threw"
        \/ (toolResult.kind = "returned"
            /\ (toolResult.value.t # "object"
                \/ toolResult.value.error.t \notin {"undefined", "null"})))
         => (pc = "Done" /\ returned.error.t = "string")

\* C12 amended: the request throws only while Generating, when the generation
\* call fails (with that failure), or out of validation on a missing field or
\* a bad code shape (before any execution call); once the execution call has
\* settled the request is Done with a record, and the record carries an error
\* when the call threw, rejected, gave no outcome object or reported a truthy
\* error.
C12_AbortFromGeneratingOrValidating ==
    /\ pc = "Thrown"
         => \/ (aiResponse.kind = "rejected" /\ thrown = aiResponse.reason
                /\ execCalls = 0)
            \/ (Replied /\ execCalls = 0
                /\ thrown \in {Err(FailedToGenerate), Err(NotCorrectFormat)}
                /\ (Absent(Reply.toolName) \/ ~WellFormedCode(Reply.executeCode)))
    /\ toolResult.kind # "pending"
         => /\ pc = "Done"
            /\ thrown = Undefined
            /\ returned # NoRecord
            /\ (toolResult.kind = "threw" \/ toolResult.value.t # "object"
                \/ Truthy(toolResult.value.error))
                 => (returned.error.t = "string" /\ returned.result = Undefined)

C12_Witness ==
    /\ pc = "Done"
    /\ toolResult.kind = "threw"
    /\ toolResult.mode = "async"
    /\ toolResult.error = Err(<<"network down">>)
    /\ returned.error = Str(<<"network down">>)

\* the order of the steps of one request
C13_Order ==
    /\ genCalls <= 1
    /\ execCalls <= 1
    /\ execCalls = 1
         => /\ genCalls = 1
            /\ Replied
            /\ Reply.toolName # Str(<<>>)
            /\ Reply.executeCode.t = "string"
            /\ Includes(Reply.executeCode.v, ExportDefaultAsyncFunction)
    /\ pc = "Done" => (thrown = Undefined /\ returned # NoRecord /\ execCalls = 1)
    /\ pc = "Thrown" => (returned = NoRecord /\ toolResult.kind = "pending")

\* the steps of one request never go back
C13_Forward ==
    /\ pc = "Generating" => pc' \in {"Executing", "Thrown"}
    /\ pc = "Executing" => pc' = "Done"
    /\ pc \in {"Done", "Thrown"} => (pc' = "Generating" /\ execCalls' = 0)
    /\ execCalls' > execCalls => (pc = "Generating" /\ aiResponse'.kind = "resolved")

\* C13: within a request DECO_TOOL_RUN_TOOL is called only after
\* AI_GENERATE_OBJECT has resolved and the reply has passed the checks of
\* lines 141 and 146, each capability is called at most once, the steps never
\* go back, and a request whose external calls settle ends in exactly one of
\* Done and Thrown.
C13_LinearRequest ==
    /\ []C13_Order
    /\ [][C13_Forward]_vars
    /\ (pc \in {"Generating", "Executing"}) ~> (pc \in {"Done", "Thrown"})

C13_Witness ==
    /\ pc = "Done"
    /\ genCalls = 1
    /\ execCalls = 1
    /\ toolResult.kind = "returned"
    /\ returned.result = Obj(<<"{todos:[]}">>)

\* the default the specification gives a missing text
TextOrEmpty(x) == IF x.t = "string" THEN x ELSE Str(<<>>)

\* C14: for a reply that passes validation the generated input is the reply's
\* input when it is an object and {} when it is missing, reasoning and
\* toolDescription are the reply's strings, or the empty string when they are
\* missing (undefined, null); none of this aborts the request.
C14_MetadataDefaults ==
    /\ (Replied /\ NonEmptyString(Reply.toolName) /\ WellFormedCode(Reply.executeCode))
          => pc \in {"Executing", "Done"}
    /\ (Replied /\ pc \in {"Executing", "Done"})
          => /\ execArgs.input = ObjectOrEmpty(Reply.input)
             /\ locals.generatedInput = ObjectOrEmpty(Reply.input)
             /\ locals.reasoning = TextOrEmpty(Reply.reasoning)
             /\ execArgs.tool.description = TextOrEmpty(Reply.toolDescription)
             /\ (pc = "Done" => returned.reasoning = TextOrEmpty(Reply.reasoning))

\* C11: with a generation backend and an execution capability that always
\* answer the same, any two requests with the same query that have settled,
\* in whatever order their steps were interleaved with each other's and with
\* other requests', have settled the same way with identical records.
C11_SameQuerySameRecord ==
    \A i, j \in Callers :
        (calls[i].pc \in {"Done", "Thrown"} /\ calls[j].pc \in {"Done", "Thrown"}
         /\ calls[i].query = calls[j].query)
            => /\ calls[i].pc = calls[j].pc
               /\ calls[i].returned = calls[j].returned
               /\ calls[i].thrown = calls[j].thrown

C11_Witness ==
    /\ calls[1].pc = "Done"
    /\ calls[2].pc = "Done"
    /\ calls[3].pc = "Done"
    /\ calls[1].query = calls[3].query
    /\ calls[1].query # calls[2].query
    /\ calls[1].returned # calls[2].returned
    /\ calls[1].returned.error = Str(<<"network down">>)

\* the requests that toggled todo id
ToggledBy(id) == {c \in Togglers : toggles[c].pc = "Done" /\ toggles[c].id = id}

\* the requests that are at work on todo id
AtWorkOn(id) ==
    {c \in Togglers : toggles[c].pc \in {"Selecting", "Updating"} /\ toggles[c].id = id}

\* C15: when exactly two TOGGLE_TODO requests on the same todo have
\* succeeded (and no other is at work on it), however their selects and
\* updates were interleaved, the stored completed is the original one, and
\* each request returned the status it stored.
C15_NoToggleLost ==
    \A id \in TodoIds :
        (Cardinality(ToggledBy(id)) = 2 /\ AtWorkOn(id) = {})
            => /\ \A r \in RowsWithId(id) : r.completed = origin[id]
               /\ \A c \in ToggledBy(id) :
                    toggles[c].returned.completed = (toggles[c].newCompletedStatus = 1)

\* C16: when the reply of the generation backend has no title (no object, or
\* title undefined or null) or an empty title, GENERATE_TODO_WITH_AI fails
\* with "Failed to generate todo" and no row has been inserted.
C16_NoTitleNoTodo ==
    (generate.generatedTodo.t # "pending"
     /\ Absent(Opt(generate.generatedTodo, "title")))
        => /\ generate.pc = "Thrown"
           /\ generate.thrown = Err(FailedToGenerateTodo)
           /\ lastId = generate.idsBefore
           /\ \A r \in todosTable : r.id <= generate.idsBefore

====
